---- MODULE Spec2Model ----
(***************************************************************************)
(* Model of the income calculator of src/app.py: the input helpers, the    *)
(* investment aggregation, the tax engine of the "Income calculator" tab   *)
(* and the session state they read.                                        *)
(*                                                                         *)
(* Amounts are exact rationals <<n, d>> (d > 0, lowest terms), so every    *)
(* product, quotient and comparison of the source is computed exactly.     *)
(* The rounding of Python's binary floating point is not modelled.         *)
(***************************************************************************)
EXTENDS Integers, Sequences, FiniteSets, TLC

VARIABLES household, person_a, person_b, investments, scenarios,
          active_scenario, out, call, prev

vars == <<household, person_a, person_b, investments, scenarios,
          active_scenario, out, call, prev>>

-----------------------------------------------------------------------------
(* Exact rational arithmetic.                                              *)

Abs(x) == IF x < 0 THEN -x ELSE x

RECURSIVE GCD(_, _)
GCD(a, b) == IF b = 0 THEN a ELSE GCD(b, a % b)

Norm(n, d) == LET g == GCD(Abs(n), d) IN <<n \div g, d \div g>>

RI(n) == <<n, 1>>

RZero == RI(0)

RNeg(a) == <<-a[1], a[2]>>

RAdd(a, b) ==
    LET g == GCD(a[2], b[2])
    IN  Norm(a[1] * (b[2] \div g) + b[1] * (a[2] \div g), (a[2] \div g) * b[2])

RSub(a, b) == RAdd(a, RNeg(b))

RMul(a, b) ==
    IF a[1] = 0 \/ b[1] = 0 THEN RZero
    ELSE LET g1 == GCD(Abs(a[1]), b[2])
             g2 == GCD(Abs(b[1]), a[2])
         IN  <<(a[1] \div g1) * (b[1] \div g2), (a[2] \div g2) * (b[2] \div g1)>>

RInv(a) == IF a[1] > 0 THEN <<a[2], a[1]>> ELSE <<-a[2], -a[1]>>

RDiv(a, b) == RMul(a, RInv(b))

RLe(a, b) ==
    LET g == GCD(a[2], b[2])
    IN  a[1] * (b[2] \div g) <= b[1] * (a[2] \div g)

RLt(a, b) == RLe(a, b) /\ a # b

RMax(a, b) == IF RLe(a, b) THEN b ELSE a

RMin(a, b) == IF RLe(a, b) THEN a ELSE b

(* int(x) of Python: truncation towards zero. *)
IntOf(a) == IF a[1] >= 0 THEN a[1] \div a[2] ELSE -((-a[1]) \div a[2])

IMax(a, b) == IF a >= b THEN a ELSE b

IMin(a, b) == IF a <= b THEN a ELSE b

-----------------------------------------------------------------------------
(* Stored input values.  A value a dictionary holds under a key is a       *)
(* number, a value float()/int() reject ("text"), or absent ("missing").   *)

Num(q) == [tag |-> "num", v |-> q]

NumI(n) == Num(RI(n))

Text == [tag |-> "text", v |-> RZero]

Missing == [tag |-> "missing", v |-> RZero]

IsNum(x) == x.tag = "num"

(* d.get(key, default) *)
Get(x, default) == IF x.tag = "missing" THEN default ELSE x

(* float(x) / int(x) raise on a value that is not a number, d[key] on a    *)
(* missing key.                                                            *)
Raises(x) == ~IsNum(x)

SG_RATE == <<3, 25>>

calc_uplift_annual(base_salary_annual, uplift_pct, weeks_away) ==
    LET pct == RDiv(RMax(RZero, uplift_pct), RI(100))
        w   == IMin(IMax(IntOf(weeks_away), 0), 52)
    IN  RMul(RMul(base_salary_annual, pct), RDiv(RI(w), RI(52)))

calc_base_ote_annual(base_salary_annual, salary_includes_sg) ==
    IF salary_includes_sg /\ RLt(RZero, RAdd(RI(1), SG_RATE))
    THEN RDiv(base_salary_annual, RAdd(RI(1), SG_RATE))
    ELSE base_salary_annual

calc_sg_annual(base_salary_annual, salary_includes_sg, uplift_annual, uplift_sg_applies) ==
    LET base_ote == calc_base_ote_annual(base_salary_annual, salary_includes_sg)
        ote      == RAdd(base_ote, IF uplift_sg_applies THEN uplift_annual ELSE RZero)
    IN  RMul(RMax(RZero, ote), SG_RATE)

calc_property_gross_income_annual(rent_per_week, vacancy_weeks) ==
    LET weeks_rented == IMax(0, 52 - IntOf(vacancy_weeks))
    IN  RMul(rent_per_week, RI(weeks_rented))

_safe_float(x) == IF IsNum(x) THEN x.v ELSE RZero

(* The figures render_person_block shows for the person p of the session   *)
(* state: uplift, total salary and super guarantee.                        *)
render_person_block(p) ==
    [uplift_annual |-> calc_uplift_annual(p.base_salary_annual.v, p.uplift_pct.v,
                                          p.weeks_away.v),
     total_salary  |-> RAdd(p.base_salary_annual.v,
                            calc_uplift_annual(p.base_salary_annual.v, p.uplift_pct.v,
                                               p.weeks_away.v)),
     sg_annual     |-> calc_sg_annual(p.base_salary_annual.v, p.salary_includes_sg,
                                      calc_uplift_annual(p.base_salary_annual.v,
                                                         p.uplift_pct.v, p.weeks_away.v),
                                      p.uplift_sg_applies)]

-----------------------------------------------------------------------------
(* Tax engine of the Income calculator tab.                                *)

(* Mutant: the third bracket forgets the tax of the bracket below it.      *)
calc_income_tax_resident_annual_NoCarry(taxable_income) ==
    LET x == RMax(RZero, taxable_income)
    IN  IF RLe(x, RI(18200)) THEN RZero
        ELSE IF RLe(x, RI(45000))
        THEN RMul(RSub(x, RI(18200)), Norm(16, 100))
        ELSE IF RLe(x, RI(135000))
        THEN RMul(RSub(x, RI(45000)), Norm(30, 100))
        ELSE IF RLe(x, RI(190000))
        THEN RAdd(RAdd(RMul(RI(45000 - 18200), Norm(16, 100)),
                       RMul(RI(135000 - 45000), Norm(30, 100))),
                  RMul(RSub(x, RI(135000)), Norm(37, 100)))
        ELSE RAdd(RAdd(RAdd(RMul(RI(45000 - 18200), Norm(16, 100)),
                            RMul(RI(135000 - 45000), Norm(30, 100))),
                       RMul(RI(190000 - 135000), Norm(37, 100))),
                  RMul(RSub(x, RI(190000)), Norm(45, 100)))

calc_income_tax_resident_annual(taxable_income) ==
    LET x == RMax(RZero, taxable_income)
        tax ==
            IF RLe(x, RI(18200)) THEN RZero
            ELSE IF RLe(x, RI(45000))
            THEN RMul(RSub(x, RI(18200)), Norm(16, 100))
            ELSE IF RLe(x, RI(135000))
            THEN RAdd(RMul(RI(45000 - 18200), Norm(16, 100)),
                      RMul(RSub(x, RI(45000)), Norm(30, 100)))
            ELSE IF RLe(x, RI(190000))
            THEN RAdd(RAdd(RMul(RI(45000 - 18200), Norm(16, 100)),
                           RMul(RI(135000 - 45000), Norm(30, 100))),
                      RMul(RSub(x, RI(135000)), Norm(37, 100)))
            ELSE RAdd(RAdd(RAdd(RMul(RI(45000 - 18200), Norm(16, 100)),
                                RMul(RI(135000 - 45000), Norm(30, 100))),
                           RMul(RI(190000 - 135000), Norm(37, 100))),
                      RMul(RSub(x, RI(190000)), Norm(45, 100)))
    IN  RMax(RZero, tax)

(* Mutant: the full levy is charged on the test-income, fringe benefits    *)
(* included.                                                               *)
calc_medicare_levy_amount_from_income_OnTestIncome(income_for_thresholds, levy_base_income, lower, upper) ==
    LET inc == RMax(RZero, income_for_thresholds)
    IN  IF RLe(inc, lower) THEN RZero
        ELSE IF RLt(inc, upper)
        THEN RMax(RZero, RMul(Norm(1, 10), RSub(inc, lower)))
        ELSE RMul(Norm(2, 100), inc)

(* Mutant: no phase-in, the full levy applies right above the lower        *)
(* threshold.                                                              *)
calc_medicare_levy_amount_from_income_NoPhaseIn(income_for_thresholds, levy_base_income, lower, upper) ==
    IF RLe(RMax(RZero, income_for_thresholds), lower) THEN RZero
    ELSE RMul(Norm(2, 100), RMax(RZero, levy_base_income))

calc_medicare_levy_amount_from_income(income_for_thresholds, levy_base_income, lower, upper) ==
    LET inc  == RMax(RZero, income_for_thresholds)
        base == RMax(RZero, levy_base_income)
    IN  IF RLe(inc, lower) THEN RZero
        ELSE IF RLt(inc, upper)
        THEN RMax(RZero, RMul(Norm(1, 10), RSub(inc, lower)))
        ELSE RMul(Norm(2, 100), base)

IND_LOWER == 27222

IND_UPPER == 34027

FAM_LOWER == 45907

FAM_UPPER == 57383

CHILD_INC_LOWER == 4216

CHILD_INC_UPPER == 5270

(* Mutant: the lower threshold does not grow with the children.            *)
fam_lower_NoChildIncrement(children) == RI(FAM_LOWER)

fam_lower(children) == RI(FAM_LOWER + CHILD_INC_LOWER * IMax(0, children))

(* Mutant: the upper threshold grows by the child increment of the lower   *)
(* one.                                                                    *)
fam_upper_LowerIncrement(children) == RI(FAM_UPPER + CHILD_INC_LOWER * IMax(0, children))

fam_upper(children) == RI(FAM_UPPER + CHILD_INC_UPPER * IMax(0, children))

(* total_levy of calc_medicare_levy_split: the household levy of a couple. *)
fam_total_levy(children, pa_taxable, pb_taxable, pa_rfb, pb_rfb) ==
    LET a_tax == RMax(RZero, pa_taxable)
        b_tax == RMax(RZero, pb_taxable)
        a_r   == RMax(RZero, pa_rfb)
        b_r   == RMax(RZero, pb_rfb)
        fam_income_for_thresholds == RAdd(RAdd(a_tax, a_r), RAdd(b_tax, b_r))
        fam_taxable_base == RAdd(a_tax, b_tax)
    IN  calc_medicare_levy_amount_from_income(
            fam_income_for_thresholds, fam_taxable_base,
            fam_lower(children), fam_upper(children))

(* Mutant: the household levy is shared by test-income, not by taxable     *)
(* income.                                                                 *)
calc_medicare_levy_split_ByTestIncome(is_couple_local, children, pa_taxable, pb_taxable, pa_rfb, pb_rfb) ==
    LET a_tax == RMax(RZero, pa_taxable)
        b_tax == RMax(RZero, pb_taxable)
        a_r   == RMax(RZero, pa_rfb)
        b_r   == RMax(RZero, pb_rfb)
        fam_income == RAdd(RAdd(a_tax, a_r), RAdd(b_tax, b_r))
        total_levy == fam_total_levy(children, pa_taxable, pb_taxable, pa_rfb, pb_rfb)
    IN  IF ~is_couple_local
        THEN <<calc_medicare_levy_amount_from_income(
                   RAdd(a_tax, a_r), a_tax, RI(IND_LOWER), RI(IND_UPPER)), RZero>>
        ELSE IF RLe(RAdd(a_tax, b_tax), RZero)
        THEN <<RZero, RZero>>
        ELSE <<RMul(total_levy, RDiv(RAdd(a_tax, a_r), fam_income)),
               RMul(total_levy, RDiv(RAdd(b_tax, b_r), fam_income))>>

(* The result pair <<A's levy, B's levy>>.  The year_label parameter of    *)
(* the source is never read and is left out.                               *)
calc_medicare_levy_split(is_couple_local, children, pa_taxable, pb_taxable, pa_rfb, pb_rfb) ==
    LET a_tax == RMax(RZero, pa_taxable)
        b_tax == RMax(RZero, pb_taxable)
        a_r   == RMax(RZero, pa_rfb)
        fam_taxable_base == RAdd(a_tax, b_tax)
        total_levy == fam_total_levy(children, pa_taxable, pb_taxable, pa_rfb, pb_rfb)
    IN  IF ~is_couple_local
        THEN <<calc_medicare_levy_amount_from_income(
                   RAdd(a_tax, a_r), a_tax, RI(IND_LOWER), RI(IND_UPPER)), RZero>>
        ELSE IF RLe(fam_taxable_base, RZero)
        THEN <<RZero, RZero>>
        ELSE <<RMul(total_levy, RDiv(a_tax, fam_taxable_base)),
               RMul(total_levy, RDiv(b_tax, fam_taxable_base))>>

(* Mutant: the tax is charged on the whole excess, not capped by the       *)
(* contributions.                                                          *)
calc_div293_tax_Uncapped(taxable_income, reportable_fringe_benefits, concessional_contributions) ==
    LET ti  == RMax(RZero, taxable_income)
        rfb == RMax(RZero, reportable_fringe_benefits)
        cc  == RMax(RZero, concessional_contributions)
    IN  RMul(Norm(15, 100), RMax(RZero, RSub(RAdd(RAdd(ti, rfb), cc), RI(250000))))

calc_div293_tax(taxable_income, reportable_fringe_benefits, concessional_contributions) ==
    LET ti  == RMax(RZero, taxable_income)
        rfb == RMax(RZero, reportable_fringe_benefits)
        cc  == RMax(RZero, concessional_contributions)
        threshold == RI(250000)
        div293_income == RAdd(RAdd(ti, rfb), cc)
        excess == RMax(RZero, RSub(div293_income, threshold))
    IN  RMul(Norm(15, 100), RMin(cc, excess))

-----------------------------------------------------------------------------
(* Investment aggregation.  An investment is a record of stored values:    *)
(* type, gross_income_annual, rent_per_week, vacancy_weeks,                *)
(* interest_deductible_annual, other_deductible_annual, ownership_a_pct.   *)

PROPERTY_TYPE == "Investment property"

(* Mutant: the stored gross is trusted for a property too.                 *)
inv_gross_Stored(inv) == _safe_float(Get(inv.gross_income_annual, NumI(0)))

(* gross of one investment: derived from rent and vacancy for a property,  *)
(* the stored value otherwise.                                             *)
inv_gross(inv) ==
    IF inv.type = PROPERTY_TYPE
    THEN calc_property_gross_income_annual(
             _safe_float(Get(inv.rent_per_week, NumI(0))),
             Get(inv.vacancy_weeks, NumI(0)).v)
    ELSE _safe_float(Get(inv.gross_income_annual, NumI(0)))

inv_net_taxable(inv) ==
    LET interest == _safe_float(Get(inv.interest_deductible_annual, NumI(0)))
        other    == _safe_float(Get(inv.other_deductible_annual, NumI(0)))
    IN  RSub(RSub(inv_gross(inv), interest), other)

(* Mutant: B's share is the complement of A's share before the clamp.     *)
ownership_split_ComplementUnclamped(inv, is_couple) ==
    IF is_couple
    THEN LET raw == RDiv(_safe_float(Get(inv.ownership_a_pct, NumI(50))), RI(100))
         IN  <<RMin(RMax(raw, RZero), RI(1)), RSub(RI(1), raw)>>
    ELSE <<RI(1), RZero>>

(* Mutant: the stored ownership is applied in single-person mode too.      *)
ownership_split_StoredInSingleMode(inv, is_couple) ==
    LET a_pct == RMin(RMax(RDiv(_safe_float(Get(inv.ownership_a_pct, NumI(50))),
                                RI(100)), RZero), RI(1))
    IN  <<a_pct, RSub(RI(1), a_pct)>>

(* <<a_pct, b_pct>> of one investment. *)
ownership_split(inv, is_couple) ==
    IF is_couple
    THEN LET a_pct == RMin(RMax(RDiv(_safe_float(Get(inv.ownership_a_pct, NumI(50))),
                                     RI(100)), RZero), RI(1))
         IN  <<a_pct, RSub(RI(1), a_pct)>>
    ELSE <<RI(1), RZero>>

NoSplits ==
    [gross_total |-> RZero, deductions_total |-> RZero, net_taxable_total |-> RZero,
     a_gross |-> RZero, b_gross |-> RZero, a_net_taxable |-> RZero, b_net_taxable |-> RZero]

(* One turn of the loop over the investments. *)
add_investment_to_splits(acc, inv, is_couple) ==
    LET gross       == inv_gross(inv)
        interest    == _safe_float(Get(inv.interest_deductible_annual, NumI(0)))
        other       == _safe_float(Get(inv.other_deductible_annual, NumI(0)))
        net_taxable == inv_net_taxable(inv)
        pcts        == ownership_split(inv, is_couple)
    IN  [gross_total       |-> RAdd(acc.gross_total, gross),
         deductions_total  |-> RAdd(acc.deductions_total, RAdd(interest, other)),
         net_taxable_total |-> RAdd(acc.net_taxable_total, net_taxable),
         a_gross           |-> RAdd(acc.a_gross, RMul(gross, pcts[1])),
         b_gross           |-> RAdd(acc.b_gross, RMul(gross, pcts[2])),
         a_net_taxable     |-> RAdd(acc.a_net_taxable, RMul(net_taxable, pcts[1])),
         b_net_taxable     |-> RAdd(acc.b_net_taxable, RMul(net_taxable, pcts[2]))]

RECURSIVE splits_loop(_, _, _)
splits_loop(acc, invs, is_couple) ==
    IF invs = <<>> THEN acc
    ELSE splits_loop(add_investment_to_splits(acc, Head(invs), is_couple),
                     Tail(invs), is_couple)

_household_investment_splits(invs, is_couple) == splits_loop(NoSplits, invs, is_couple)

(* int(inv.get("vacancy_weeks", 0)) is the one conversion of the loop that *)
(* is not behind _safe_float.                                              *)
splits_raises(invs) ==
    \E i \in 1..Len(invs) :
        /\ invs[i].type = PROPERTY_TYPE
        /\ Raises(Get(invs[i].vacancy_weeks, NumI(0)))

-----------------------------------------------------------------------------
(* The calculation pass of the Income calculator tab.  A household is      *)
(* [is_couple, dependant_children]; a person is [base_salary_annual,       *)
(* salary_includes_sg, weeks_away, uplift_pct, uplift_sg_applies,          *)
(* extra_concessional_annual, reportable_fringe_benefits_annual].          *)

(* The closure of _compute_tax_components is passed as ctx:                *)
(* [is_couple, dependant_children, pa_rfb, pb_rfb, pa_concessional_total,  *)
(*  pb_concessional_total].  The result is <<pa_income_tax, pb_income_tax, *)
(* pa_medicare, pb_medicare, pa_div293, pb_div293>>.                       *)
_compute_tax_components(ctx, pa_taxable_local, pb_taxable_local) ==
    LET levy == calc_medicare_levy_split(ctx.is_couple, ctx.dependant_children,
                    pa_taxable_local, pb_taxable_local, ctx.pa_rfb, ctx.pb_rfb)
    IN  <<calc_income_tax_resident_annual(pa_taxable_local),
          IF ctx.is_couple THEN calc_income_tax_resident_annual(pb_taxable_local) ELSE RZero,
          levy[1],
          levy[2],
          calc_div293_tax(pa_taxable_local, ctx.pa_rfb, ctx.pa_concessional_total),
          IF ctx.is_couple
          THEN calc_div293_tax(pb_taxable_local, ctx.pb_rfb, ctx.pb_concessional_total)
          ELSE RZero>>

concessional_total(sg, extra_cc) == RMax(RZero, RAdd(sg, extra_cc))

super_tax(concessional) == RMul(Norm(15, 100), concessional)

(* Mutant: Division 293 tax is left out of the total.                      *)
total_tax_NoDiv293(income_tax, medicare, div293) == RAdd(income_tax, medicare)

total_tax(income_tax, medicare, div293) == RAdd(RAdd(income_tax, medicare), div293)

taxable_no_losses(total_salary, net_taxable) == RAdd(total_salary, RMax(RZero, net_taxable))

ng_benefit(income_tax_nl, medicare_nl, div293_nl, income_tax, medicare, div293) ==
    RMax(RZero, RSub(RAdd(RAdd(income_tax_nl, medicare_nl), div293_nl),
                     RAdd(RAdd(income_tax, medicare), div293)))

after_tax_income(total_salary, tax) == RMax(RZero, RSub(total_salary, tax))

(* The conversions of the pass that are not behind _safe_float: int() of   *)
(* the child count, the person fields read with p[key] and handed to       *)
(* float()/int() by calc_uplift_annual and calc_sg_annual, and the vacancy *)
(* weeks of a property.  Person B is read in couple mode only.             *)
person_raises(p) ==
    \/ Raises(p.base_salary_annual)
    \/ Raises(p.uplift_pct)
    \/ Raises(p.weeks_away)

tab_calc_raises(hh, pa, pb, invs) ==
    \/ Raises(Get(hh.dependant_children, NumI(0)))
    \/ person_raises(pa)
    \/ (hh.is_couple /\ person_raises(pb))
    \/ splits_raises(invs)

(* The pass runs top to bottom; each section below takes the names bound   *)
(* so far as the record r and adds the names it binds.                     *)

(* Earnings: base OTE and uplift of each person. *)
earnings(hh, pa, pb) ==
    [raised |-> FALSE,
     is_couple |-> hh.is_couple,
     dependant_children |-> IntOf(Get(hh.dependant_children, NumI(0)).v),
     pa_base_ote |-> calc_base_ote_annual(
                         _safe_float(Get(pa.base_salary_annual, NumI(0))),
                         pa.salary_includes_sg),
     pb_base_ote |-> IF hh.is_couple
                     THEN calc_base_ote_annual(
                              _safe_float(Get(pb.base_salary_annual, NumI(0))),
                              pb.salary_includes_sg)
                     ELSE RZero,
     pa_uplift |-> calc_uplift_annual(pa.base_salary_annual.v, pa.uplift_pct.v,
                                      pa.weeks_away.v),
     pb_uplift |-> IF hh.is_couple
                   THEN calc_uplift_annual(pb.base_salary_annual.v, pb.uplift_pct.v,
                                           pb.weeks_away.v)
                   ELSE RZero]

(* Total salary of each person and the allocation of the investments. *)
salaries(r, invs) ==
    r @@ [pa_total_salary |-> RAdd(r.pa_base_ote, r.pa_uplift),
          pb_total_salary |-> IF r.is_couple THEN RAdd(r.pb_base_ote, r.pb_uplift)
                              ELSE RZero,
          splits |-> _household_investment_splits(invs, r.is_couple)]

(* Taxable incomes, super guarantee, extra contributions, fringe benefits. *)
taxable_and_super(r, pa, pb) ==
    r @@ [pa_taxable_income |-> RAdd(r.pa_total_salary, r.splits.a_net_taxable),
          pb_taxable_income |-> RAdd(r.pb_total_salary, r.splits.b_net_taxable),
          pa_sg |-> calc_sg_annual(pa.base_salary_annual.v, pa.salary_includes_sg,
                                   r.pa_uplift, pa.uplift_sg_applies),
          pb_sg |-> IF r.is_couple
                    THEN calc_sg_annual(pb.base_salary_annual.v, pb.salary_includes_sg,
                                        r.pb_uplift, pb.uplift_sg_applies)
                    ELSE RZero,
          pa_extra_cc |-> _safe_float(Get(pa.extra_concessional_annual, NumI(0))),
          pb_extra_cc |-> IF r.is_couple
                          THEN _safe_float(Get(pb.extra_concessional_annual, NumI(0)))
                          ELSE RZero,
          pa_rfb |-> _safe_float(Get(pa.reportable_fringe_benefits_annual, NumI(0))),
          pb_rfb |-> IF r.is_couple
                     THEN _safe_float(Get(pb.reportable_fringe_benefits_annual, NumI(0)))
                     ELSE RZero,
          pa_taxable_no_losses |->
              taxable_no_losses(r.pa_total_salary, r.splits.a_net_taxable),
          pb_taxable_no_losses |->
              taxable_no_losses(r.pb_total_salary, r.splits.b_net_taxable)]

(* Concessional totals and the contributions tax of the fund. *)
concessional(r) ==
    r @@ [pa_concessional_total |-> concessional_total(r.pa_sg, r.pa_extra_cc),
          pb_concessional_total |-> IF r.is_couple
                                    THEN concessional_total(r.pb_sg, r.pb_extra_cc)
                                    ELSE RZero]

super_taxes(r) ==
    r @@ [pa_super_tax |-> super_tax(r.pa_concessional_total),
          pb_super_tax |-> IF r.is_couple THEN super_tax(r.pb_concessional_total)
                           ELSE RZero]

(* What _compute_tax_components reads from the enclosing scope. *)
closure(r) ==
    [is_couple |-> r.is_couple, dependant_children |-> r.dependant_children,
     pa_rfb |-> r.pa_rfb, pb_rfb |-> r.pb_rfb,
     pa_concessional_total |-> r.pa_concessional_total,
     pb_concessional_total |-> r.pb_concessional_total]

(* Tax components t of the actual taxable incomes and nl of the incomes    *)
(* without losses; total tax and negative gearing benefit of each person.  *)
taxes(r, t, nl) ==
    r @@ [pa_income_tax |-> t[1], pb_income_tax |-> t[2],
          pa_medicare |-> t[3], pb_medicare |-> t[4],
          pa_div293 |-> t[5], pb_div293 |-> t[6],
          pa_total_tax |-> total_tax(t[1], t[3], t[5]),
          pb_total_tax |-> IF r.is_couple THEN total_tax(t[2], t[4], t[6]) ELSE RZero,
          pa_ng_benefit |-> ng_benefit(nl[1], nl[3], nl[5], t[1], t[3], t[5]),
          pb_ng_benefit |-> IF r.is_couple
                            THEN ng_benefit(nl[2], nl[4], nl[6], t[2], t[4], t[6])
                            ELSE RZero]

tax_components(r) ==
    taxes(r,
          _compute_tax_components(closure(r), r.pa_taxable_income, r.pb_taxable_income),
          _compute_tax_components(closure(r), r.pa_taxable_no_losses,
                                  r.pb_taxable_no_losses))

(* Totals of each person and of the household. *)
after_tax(r) ==
    r @@ [pa_after_tax_income |-> after_tax_income(r.pa_total_salary, r.pa_total_tax),
          pb_after_tax_income |-> IF r.is_couple
                                  THEN after_tax_income(r.pb_total_salary, r.pb_total_tax)
                                  ELSE RZero,
          household_total_salary |->
              RAdd(r.pa_total_salary, IF r.is_couple THEN r.pb_total_salary ELSE RZero),
          household_super_total |->
              RAdd(RAdd(r.pa_sg, r.pa_extra_cc),
                   IF r.is_couple THEN RAdd(r.pb_sg, r.pb_extra_cc) ELSE RZero),
          household_ng_benefit |->
              RAdd(r.pa_ng_benefit, IF r.is_couple THEN r.pb_ng_benefit ELSE RZero)]

(* Mutant: household pay counts the investments net of their deductions.   *)
household_totals_NetOfDeductions(r) ==
    r @@ [household_pay |-> RAdd(RAdd(r.pa_after_tax_income, r.pb_after_tax_income),
                                 r.splits.net_taxable_total)]

household_totals(r) ==
    r @@ [household_pay |-> RAdd(RAdd(r.pa_after_tax_income, r.pb_after_tax_income),
                                 r.splits.gross_total)]

monthly(r) == r @@ [pay_monthly |-> RDiv(r.household_pay, RI(12))]

tab_calc_values(hh, pa, pb, invs) ==
    monthly(household_totals(after_tax(tax_components(super_taxes(concessional(
        taxable_and_super(salaries(earnings(hh, pa, pb), invs), pa, pb)))))))

(* The outputs of one pass, or the fact that it raised. *)
tab_calc(hh, pa, pb, invs) ==
    IF tab_calc_raises(hh, pa, pb, invs)
    THEN [raised |-> TRUE]
    ELSE tab_calc_values(hh, pa, pb, invs)

-----------------------------------------------------------------------------
(* Session state after _ensure_state.                                      *)

DefaultHousehold == [is_couple |-> TRUE, dependant_children |-> NumI(0)]

DefaultPerson ==
    [base_salary_annual |-> NumI(0), salary_includes_sg |-> FALSE,
     weeks_away |-> NumI(0), uplift_pct |-> NumI(0), uplift_sg_applies |-> FALSE,
     extra_concessional_annual |-> NumI(0),
     reportable_fringe_benefits_annual |-> NumI(0)]

NoOut == [raised |-> FALSE, ran |-> FALSE]

Ran == out # NoOut

NoCall == [fn |-> "none"]

(* A scenario name is a string of characters, never empty once stored;     *)
(* None is the empty string of characters.                                 *)
None == <<>>

NoScenarios == [n \in {} |-> n]

-----------------------------------------------------------------------------------------------------------------------------------------------------
(* The calculation pass over the inputs the widgets of the Inputs tab can  *)
(* leave in the session state: amounts >= 0, weeks in 0..52, ownership in  *)
(* 0..100, the stored gross of a property equal to rent x weeks let, no    *)
(* deductions on a cash deposit, and ownership 100 in single mode.         *)

Salaries == {0, 33600, 100800, 280000}

ExtraConcessionals == {0, 10000}

FringeBenefits == {0, 20000}

ChildCounts == {0, 2}

Person(s, g, w, u, a, e, f) ==
    [base_salary_annual |-> NumI(s), salary_includes_sg |-> g,
     weeks_away |-> NumI(w), uplift_pct |-> NumI(u), uplift_sg_applies |-> a,
     extra_concessional_annual |-> NumI(e),
     reportable_fringe_benefits_annual |-> NumI(f)]

(* <<salary includes SG, weeks away, SG applies to uplift>>, with an uplift *)
(* of 10%.                                                                 *)
UpliftSettings == {<<FALSE, 0, FALSE>>, <<FALSE, 26, FALSE>>, <<TRUE, 26, TRUE>>}

PersonsWide ==
    {Person(s, u[1], u[2], 10, u[3], e, f) :
        <<s, u, e, f>> \in
            Salaries \X UpliftSettings \X ExtraConcessionals \X FringeBenefits}

PersonsNarrow ==
    {Person(s, FALSE, 0, 0, FALSE, 0, f) : <<s, f>> \in {0, 33600, 280000} \X FringeBenefits}

Investment(type, gross, rent, vacancy, interest, other, own) ==
    [type |-> type, gross_income_annual |-> gross, rent_per_week |-> rent,
     vacancy_weeks |-> vacancy, interest_deductible_annual |-> interest,
     other_deductible_annual |-> other, ownership_a_pct |-> own]

Shares(gross, interest, own) ==
    Investment("Shares/ETFs", NumI(gross), NumI(0), NumI(0), NumI(interest), NumI(0), NumI(own))

Property(rent, vacancy, interest, other, own) ==
    Investment(PROPERTY_TYPE, NumI(rent * (52 - vacancy)), NumI(rent), NumI(vacancy),
               NumI(interest), NumI(other), NumI(own))

(* The investment lists of the households.                                 *)
HouseholdInvestments ==
    {<<>>,
     <<Shares(8000, 0, 50)>>,
     <<Shares(0, 20000, 0)>>,
     <<Shares(0, 20000, 50)>>,
     <<Shares(0, 20000, 100)>>,
     <<Shares(60000, 0, 100)>>,
     <<Property(500, 4, 40000, 2000, 50)>>,
     <<Shares(8000, 0, 100), Shares(0, 20000, 0)>>,
     <<Investment("Cash/Term deposit", NumI(8000), NumI(0), NumI(0), NumI(0), NumI(0),
                  NumI(100)),
       Shares(0, 20000, 100)>>}

RECURSIVE SeqsUpTo(_, _)
SeqsUpTo(S, n) ==
    IF n = 0 THEN {<<>>}
    ELSE LET shorter == SeqsUpTo(S, n - 1)
         IN  shorter \cup {Append(q, x) : q \in {r \in shorter : Len(r) = n - 1}, x \in S}

(* In single mode every rerun of the Inputs tab stores ownership 100.      *)
SingleModeOwnership(hh, invs) ==
    hh.is_couple \/ \A i \in 1..Len(invs) : invs[i].ownership_a_pct = NumI(100)

InitPass ==
    /\ household \in {[is_couple |-> c, dependant_children |-> NumI(k)] :
                        c \in BOOLEAN, k \in ChildCounts}
    /\ \/ person_a \in PersonsWide /\ person_b \in PersonsNarrow
       \/ person_a \in PersonsNarrow /\ person_b \in PersonsWide
    /\ investments \in HouseholdInvestments
    /\ SingleModeOwnership(household, investments)
    /\ scenarios = NoScenarios
    /\ active_scenario = None
    /\ out = NoOut
    /\ call = NoCall
    /\ prev = NoCall

(* Mutant: a pass in single mode resets the hidden person B.               *)
tab_calc_session_ResetsHiddenB(hh, pa, pb, invs) ==
    [household |-> hh, person_a |-> pa,
     person_b |-> IF hh.is_couple THEN pb ELSE DefaultPerson, investments |-> invs]

(* The session records a pass leaves behind: it binds hh, pa and pb to the *)
(* records and hands the investment list to _household_investment_splits, *)
(* and assigns to none of them.                                            *)
tab_calc_session(hh, pa, pb, invs) ==
    [household |-> hh, person_a |-> pa, person_b |-> pb, investments |-> invs]

RunTabCalc ==
    /\ ~Ran
    /\ out' = tab_calc(household, person_a, person_b, investments)
    /\ household' = tab_calc_session(household, person_a, person_b, investments).household
    /\ person_a' = tab_calc_session(household, person_a, person_b, investments).person_a
    /\ person_b' = tab_calc_session(household, person_a, person_b, investments).person_b
    /\ investments' =
           tab_calc_session(household, person_a, person_b, investments).investments
    /\ call' = NoCall
    /\ UNCHANGED <<scenarios, active_scenario, prev>>

(* The extra-concessional widget of a person block, and the rerun of the   *)
(* script that follows every widget change.  Person B's block is rendered  *)
(* in couple mode only.                                                    *)
SetExtraConcessional ==
    /\ Ran
    /\ \E e \in ExtraConcessionals :
          \/ /\ person_a.extra_concessional_annual # NumI(e)
             /\ person_a' = [person_a EXCEPT !.extra_concessional_annual = NumI(e)]
             /\ person_b' = person_b
          \/ /\ household.is_couple
             /\ person_b.extra_concessional_annual # NumI(e)
             /\ person_b' = [person_b EXCEPT !.extra_concessional_annual = NumI(e)]
             /\ person_a' = person_a
    /\ out' = tab_calc(household, person_a', person_b', investments)
    /\ UNCHANGED <<household, investments, scenarios, active_scenario, call, prev>>

NextPass == RunTabCalc \/ SetExtraConcessional

SpecPass == InitPass /\ [][NextPass]_vars

-----------------------------------------------------------------------------
(* The application.  Every interaction reruns the script: the sidebar,     *)
(* then the Inputs tab, then the calculation pass.  An interaction is one  *)
(* action, which carries the script as far as the end of the Inputs tab    *)
(* (through the st.rerun() of the sidebar buttons and of Add and Remove);  *)
(* the calculation pass that ends the run is RunTabCalc.  call names the   *)
(* interaction whose pass is still to come.  A widget nobody touched       *)
(* returns the value the script hands it, which is the stored one.         *)

MaxInvestments == 1

NameInputs == {<<>>, <<" ">>, <<"A">>, <<" ", "A", " ">>, <<"B">>}

InvestmentTypes == {PROPERTY_TYPE}

SalaryEdits == {0, 100800}

OwnershipEdits == {50, 100}

_snapshot(hh, pa, pb, invs) ==
    [household |-> hh, person_a |-> pa, person_b |-> pb, investments |-> invs]

(* Mutant: loading leaves the investment list as it is.                    *)
_load_snapshot_SkipsInvestments(payload, current) ==
    [key \in {"household", "person_a", "person_b", "investments"} |->
        IF key \in DOMAIN payload /\ key # "investments"
        THEN payload[key] ELSE current[key]]

(* payload.get(key, current) for each of the four keys.                    *)
_load_snapshot(payload, current) ==
    [key \in {"household", "person_a", "person_b", "investments"} |->
        IF key \in DOMAIN payload THEN payload[key] ELSE current[key]]

RECURSIVE lstrip(_)
lstrip(s) == IF s # <<>> /\ Head(s) = " " THEN lstrip(Tail(s)) ELSE s

RECURSIVE rstrip(_)
rstrip(s) == IF s # <<>> /\ s[Len(s)] = " " THEN rstrip(SubSeq(s, 1, Len(s) - 1)) ELSE s

strip(s) == rstrip(lstrip(s))

(* d[k] = v and del d[k] on the dict of scenarios.                          *)
setitem(d, k, v) == [n \in DOMAIN d \cup {k} |-> IF n = k THEN v ELSE d[n]]

delitem(d, k) == [n \in DOMAIN d \ {k} |-> d[n]]

(* The record the Add form appends; its id stands for the uuid, fresh in   *)
(* the list.                                                               *)
new_investment(id, new_type, is_couple) ==
    [id |-> id, type |-> new_type,
     ownership_a_pct |-> IF is_couple THEN NumI(50) ELSE NumI(100),
     gross_income_annual |-> NumI(0), interest_deductible_annual |-> NumI(0),
     other_deductible_annual |-> NumI(0), rent_per_week |-> NumI(0),
     vacancy_weeks |-> NumI(0)]

(* One investment after its container is rendered with no widget touched:  *)
(* ownership 100 in single mode, the gross of a property recomputed, no    *)
(* deductions on a cash deposit.                                           *)
render_investment(inv, is_couple) ==
    LET own == IF is_couple THEN inv.ownership_a_pct ELSE NumI(100)
    IN  IF inv.type = PROPERTY_TYPE
        THEN [inv EXCEPT !.ownership_a_pct = own,
                         !.gross_income_annual =
                             Num(calc_property_gross_income_annual(
                                     _safe_float(inv.rent_per_week),
                                     inv.vacancy_weeks.v))]
        ELSE IF inv.type = "Cash/Term deposit"
        THEN [inv EXCEPT !.ownership_a_pct = own,
                         !.interest_deductible_annual = NumI(0),
                         !.other_deductible_annual = NumI(0)]
        ELSE [inv EXCEPT !.ownership_a_pct = own]

render_investments(invs, is_couple) ==
    [i \in 1..Len(invs) |-> render_investment(invs[i], is_couple)]

remove_investment(invs, id) == SelectSeq(invs, LAMBDA x : x.id # id)

Init ==
    /\ household = DefaultHousehold
    /\ person_a = DefaultPerson
    /\ person_b = DefaultPerson
    /\ investments = <<>>
    /\ scenarios = NoScenarios
    /\ active_scenario = None
    /\ out = NoOut
    /\ call = NoCall
    /\ prev = NoCall

(* The rest of a run in which the sidebar or the household and person      *)
(* widgets left the session records hh, pa, pb, invs.                      *)
RenderInputs(hh, pa, pb, invs) ==
    /\ household' = hh
    /\ person_a' = pa
    /\ person_b' = pb
    /\ investments' = render_investments(invs, hh.is_couple)
    /\ out' = NoOut
    /\ prev' = prev

(* The "Add scenario" form.                                                *)
AddScenario(new_name) ==
    /\ Ran
    /\ IF strip(new_name) = <<>>
       THEN UNCHANGED <<scenarios, active_scenario>>
       ELSE /\ scenarios' = setitem(scenarios, strip(new_name),
                                    _snapshot(household, person_a, person_b, investments))
            /\ active_scenario' = strip(new_name)
    /\ call' = [fn |-> "add_scenario", name |-> new_name]
    /\ RenderInputs(household, person_a, person_b, investments)

(* The "Load" button of a stored scenario.                                 *)
LoadScenario(name) ==
    /\ Ran
    /\ name \in DOMAIN scenarios
    /\ active_scenario' = name
    /\ scenarios' = scenarios
    /\ call' = [fn |-> "load_scenario", name |-> name]
    /\ RenderInputs(
           _load_snapshot(scenarios[name],
               _snapshot(household, person_a, person_b, investments)).household,
           _load_snapshot(scenarios[name],
               _snapshot(household, person_a, person_b, investments)).person_a,
           _load_snapshot(scenarios[name],
               _snapshot(household, person_a, person_b, investments)).person_b,
           _load_snapshot(scenarios[name],
               _snapshot(household, person_a, person_b, investments)).investments)

(* Mutant: deleting the active scenario leaves it active.                  *)
DeleteScenario_KeepsActive(name) ==
    /\ Ran
    /\ name \in DOMAIN scenarios
    /\ active_scenario' = active_scenario
    /\ scenarios' = delitem(scenarios, name)
    /\ call' = [fn |-> "delete_scenario", name |-> name]
    /\ RenderInputs(household, person_a, person_b, investments)

(* The "Delete" button of a stored scenario.                               *)
DeleteScenario(name) ==
    /\ Ran
    /\ name \in DOMAIN scenarios
    /\ active_scenario' = IF active_scenario = name THEN None ELSE active_scenario
    /\ scenarios' = delitem(scenarios, name)
    /\ call' = [fn |-> "delete_scenario", name |-> name]
    /\ RenderInputs(household, person_a, person_b, investments)

(* "Save (overwrite) active scenario"; this button asks for no rerun.      *)
SaveOverActive ==
    /\ Ran
    /\ DOMAIN scenarios # {}
    /\ active_scenario # None
    /\ scenarios' = setitem(scenarios, active_scenario,
                            _snapshot(household, person_a, person_b, investments))
    /\ active_scenario' = active_scenario
    /\ call' = [fn |-> "save_over_active", name |-> active_scenario]
    /\ RenderInputs(household, person_a, person_b, investments)

(* The Couple toggle of the household expander.                            *)
ToggleCouple ==
    /\ Ran
    /\ call' = [fn |-> "toggle_couple"]
    /\ RenderInputs([household EXCEPT !.is_couple = ~household.is_couple],
                    person_a, person_b, investments)
    /\ UNCHANGED <<scenarios, active_scenario>>

(* The base-salary widget of a person block; person B's block is rendered  *)
(* in couple mode only.                                                    *)
EditPerson(who, salary) ==
    /\ Ran
    /\ \/ /\ who = "person_a"
          /\ person_a.base_salary_annual # NumI(salary)
          /\ RenderInputs(household,
                          [person_a EXCEPT !.base_salary_annual = NumI(salary)],
                          person_b, investments)
       \/ /\ who = "person_b"
          /\ household.is_couple
          /\ person_b.base_salary_annual # NumI(salary)
          /\ RenderInputs(household, person_a,
                          [person_b EXCEPT !.base_salary_annual = NumI(salary)],
                          investments)
    /\ call' = [fn |-> "edit_person", who |-> who]
    /\ UNCHANGED <<scenarios, active_scenario>>

(* The "Add" form of the Investments expander.                             *)
AddInvestment(new_type) ==
    /\ Ran
    /\ Len(investments) < MaxInvestments
    /\ call' = [fn |-> "add_investment"]
    /\ RenderInputs(household, person_a, person_b,
           Append(investments,
               new_investment(
                   CHOOSE id \in 1..MaxInvestments :
                       /\ \A i \in 1..Len(investments) : investments[i].id # id
                       /\ \A j \in 1..(id - 1) :
                             \E i \in 1..Len(investments) : investments[i].id = j,
                   new_type, household.is_couple)))
    /\ UNCHANGED <<scenarios, active_scenario>>

(* The "Remove" button of the investment at position idx.                  *)
RemoveInvestment(idx) ==
    /\ Ran
    /\ idx \in 1..Len(investments)
    /\ call' = [fn |-> "remove_investment"]
    /\ RenderInputs(household, person_a, person_b,
                    remove_investment(investments, investments[idx].id))
    /\ UNCHANGED <<scenarios, active_scenario>>

(* The ownership widget of an investment, rendered in couple mode only.    *)
EditInvestment(idx) ==
    /\ Ran
    /\ idx \in 1..Len(investments)
    /\ household.is_couple
    /\ \E own \in OwnershipEdits :
          /\ investments[idx].ownership_a_pct # NumI(own)
          /\ RenderInputs(household, person_a, person_b,
                 [investments EXCEPT ![idx].ownership_a_pct = NumI(own)])
    /\ call' = [fn |-> "edit_investment"]
    /\ UNCHANGED <<scenarios, active_scenario>>

Next ==
    \/ RunTabCalc
    \/ \E new_name \in NameInputs : AddScenario(new_name)
    \/ \E name \in DOMAIN scenarios : LoadScenario(name)
    \/ \E name \in DOMAIN scenarios : DeleteScenario(name)
    \/ SaveOverActive
    \/ ToggleCouple
    \/ \E who \in {"person_a", "person_b"}, salary \in SalaryEdits : EditPerson(who, salary)
    \/ \E new_type \in InvestmentTypes : AddInvestment(new_type)
    \/ \E idx \in 1..MaxInvestments : RemoveInvestment(idx)
    \/ \E idx \in 1..MaxInvestments : EditInvestment(idx)

Spec == Init /\ [][Next]_vars

-----------------------------------------------------------------------------
(* The functions of the engine called on their own, over arguments that    *)
(* include the ones the widgets rule out (negative amounts, percentages    *)
(* outside 0..100, values that are not numbers).  call is the last call    *)
(* and its result; prev is the call before it when both are calls of       *)
(* calc_income_tax_resident_annual.  A behaviour is one call, or two calls *)
(* of calc_income_tax_resident_annual.                                     *)

Half(n) == Norm(2 * n + 1, 2)

TaxIncomes ==
    {RI(n) : n \in {-1000, 0, 1, 18199, 18200, 18201, 30000, 44999, 45000, 45001,
                    100000, 134999, 135000, 135001, 189999, 190000, 190001,
                    260000, 1000000}}
    \cup {Half(18200), Half(44999), Half(135000), Half(189999)}

Call_calc_income_tax_resident_annual ==
    /\ call = NoCall \/ (call.fn = "calc_income_tax_resident_annual" /\ prev = NoCall)
    /\ \E x \in TaxIncomes :
        /\ call' = [fn |-> "calc_income_tax_resident_annual", args |-> x,
                    res |-> calc_income_tax_resident_annual(x)]
        /\ prev' = IF call.fn = "calc_income_tax_resident_annual" THEN call ELSE NoCall
        /\ UNCHANGED <<household, person_a, person_b, investments, scenarios,
                     active_scenario, out>>

LevyTaxablesA ==
    {-5000, 0, 20000, 27222, 27223, 34026, 34027, 45907, 50123, 52000, 57383, 62653, 90000}

LevyTaxablesB == {-5000, 0, 10000, 30000}

LevyArgs ==
    {[is_couple |-> c, children |-> k, pa_taxable |-> RI(a), pb_taxable |-> RI(b),
      pa_rfb |-> RI(ra), pb_rfb |-> RI(rb)] :
        <<c, k, a, b, ra, rb>> \in
            BOOLEAN \X {-1, 0, 1} \X LevyTaxablesA \X LevyTaxablesB
                \X {0, 5000, 50000} \X {0, 5000}}

(* total_levy is the local of that name, which a couple's call computes    *)
(* before it splits it; a single person's call returns before it.          *)
Call_calc_medicare_levy_split ==
    /\ call = NoCall
    /\ \E a \in LevyArgs :
        /\ call' = [fn |-> "calc_medicare_levy_split", args |-> a,
                    res |-> calc_medicare_levy_split(a.is_couple, a.children, a.pa_taxable,
                                                     a.pb_taxable, a.pa_rfb, a.pb_rfb),
                    total_levy |-> IF a.is_couple
                                   THEN fam_total_levy(a.children, a.pa_taxable,
                                                       a.pb_taxable, a.pa_rfb, a.pb_rfb)
                                   ELSE RZero]
        /\ prev' = NoCall
        /\ UNCHANGED <<household, person_a, person_b, investments, scenarios,
                     active_scenario, out>>

(* calc_medicare_levy_amount_from_income as calc_medicare_levy_split calls  *)
(* it: the test-income is taxable income plus fringe benefits, the levy    *)
(* base the taxable income, the thresholds those of an individual or of a  *)
(* family.  A second call changes the taxable income only.                 *)
Cents(n) == Norm(n, 100)

LevyIncomes ==
    {RI(n) : n \in {0, 20000, 27222, 27223, 34026, 34027, 34028, 45907, 45908,
                    54339, 57382, 57383, 67923, 90000}}
    \cup {Cents(3402598), Cents(3402698), Cents(5738298), Cents(6792298)}

LevyFringe == {RI(0), RI(1), RI(5000), RI(20000)}

LevyThresholds ==
    {<<RI(IND_LOWER), RI(IND_UPPER)>>} \cup {<<fam_lower(k), fam_upper(k)>> : k \in {0, 2}}

Call_calc_medicare_levy_amount_from_income ==
    \/ /\ call = NoCall
       /\ \E t \in LevyIncomes, r \in LevyFringe, th \in LevyThresholds :
              call' = [fn |-> "calc_medicare_levy_amount_from_income",
                       args |-> [taxable |-> t, rfb |-> r, lower |-> th[1], upper |-> th[2]],
                       res |-> calc_medicare_levy_amount_from_income(
                                   RAdd(t, r), t, th[1], th[2])]
       /\ prev' = NoCall
       /\ UNCHANGED <<household, person_a, person_b, investments, scenarios,
                     active_scenario, out>>
    \/ /\ call.fn = "calc_medicare_levy_amount_from_income"
       /\ prev = NoCall
       /\ \E t \in LevyIncomes :
              call' = [fn |-> "calc_medicare_levy_amount_from_income",
                       args |-> [call.args EXCEPT !.taxable = t],
                       res |-> calc_medicare_levy_amount_from_income(
                                   RAdd(t, call.args.rfb), t, call.args.lower,
                                   call.args.upper)]
       /\ prev' = call
       /\ UNCHANGED <<household, person_a, person_b, investments, scenarios,
                     active_scenario, out>>

(* The person block of the Inputs tab, rendered for a person as the widgets *)
(* store one.                                                              *)
Call_render_person_block ==
    /\ call = NoCall
    /\ \E p \in PersonsWide :
        /\ call' = [fn |-> "render_person_block", args |-> p, res |-> render_person_block(p)]
        /\ prev' = NoCall
        /\ UNCHANGED <<household, person_a, person_b, investments, scenarios,
                     active_scenario, out>>

(* calc_uplift_annual and calc_property_gross_income_annual on arguments   *)
(* inside and outside the ranges of the widgets, whole and fractional.     *)
UpliftArgs ==
    {[base_salary_annual |-> RI(b), uplift_pct |-> RI(p), weeks_away |-> w] :
        <<b, p, w>> \in {0, 52000} \X {-10, 0, 10, 250}
                        \X {RI(-3), RI(0), RI(26), Norm(53, 2), RI(52), RI(60)}}

Call_calc_uplift_annual ==
    /\ call = NoCall
    /\ \E a \in UpliftArgs :
        /\ call' = [fn |-> "calc_uplift_annual", args |-> a,
                    res |-> calc_uplift_annual(a.base_salary_annual, a.uplift_pct,
                                               a.weeks_away)]
        /\ prev' = NoCall
        /\ UNCHANGED <<household, person_a, person_b, investments, scenarios,
                     active_scenario, out>>

PropertyGrossArgs ==
    {[rent_per_week |-> RI(r), vacancy_weeks |-> v] :
        <<r, v>> \in {0, 500}
                     \X {RI(-4), Norm(-1, 2), RI(0), RI(4), Norm(103, 2), RI(52), RI(60)}}

Call_calc_property_gross_income_annual ==
    /\ call = NoCall
    /\ \E a \in PropertyGrossArgs :
        /\ call' = [fn |-> "calc_property_gross_income_annual", args |-> a,
                    res |-> calc_property_gross_income_annual(a.rent_per_week,
                                                              a.vacancy_weeks)]
        /\ prev' = NoCall
        /\ UNCHANGED <<household, person_a, person_b, investments, scenarios,
                     active_scenario, out>>

Div293Args ==
    {[taxable_income |-> RI(t), reportable_fringe_benefits |-> RI(r),
      concessional_contributions |-> RI(c)] :
        <<t, r, c>> \in
            {-10000, 0, 200000, 240000, 250000, 260000, 300000}
                \X {-5000, 0, 5000, 20000} \X {-100, 0, 10000, 30000}}

Call_calc_div293_tax ==
    /\ call = NoCall
    /\ \E a \in Div293Args :
        /\ call' = [fn |-> "calc_div293_tax", args |-> a,
                    res |-> calc_div293_tax(a.taxable_income, a.reportable_fringe_benefits,
                                            a.concessional_contributions)]
        /\ prev' = NoCall
        /\ UNCHANGED <<household, person_a, person_b, investments, scenarios,
                     active_scenario, out>>

(* Investments as a caller may hand them over: ownership outside 0..100,   *)
(* not a number or absent, and a property whose stored gross is stale.     *)
StoredGross == {0, 24000, 99999}

AnyInvestments ==
    {Investment("Shares/ETFs", NumI(8000), NumI(0), NumI(0), NumI(20000), NumI(500), own) :
        own \in {NumI(-20), NumI(0), NumI(34), NumI(100), NumI(150), Text, Missing}}
    \cup
    {Investment(PROPERTY_TYPE, NumI(g), NumI(500), NumI(4), NumI(30000), NumI(0), NumI(50)) :
        g \in StoredGross}
    \cup
    {Investment(PROPERTY_TYPE, NumI(24000), NumI(700), NumI(60), NumI(0), NumI(3000), NumI(20)),
     Investment("Other", Text, NumI(0), NumI(0), Missing, NumI(1000), NumI(75))}

MaxCallInvestments == 2

Call_household_investment_splits ==
    /\ call = NoCall
    /\ \E invs \in SeqsUpTo(AnyInvestments, MaxCallInvestments), c \in BOOLEAN :
        /\ call' = [fn |-> "_household_investment_splits",
                    args |-> [investments |-> invs, is_couple |-> c],
                    res |-> _household_investment_splits(invs, c)]
        /\ prev' = NoCall
        /\ UNCHANGED <<household, person_a, person_b, investments, scenarios,
                     active_scenario, out>>

(* The pass over session records as they may be handed over: two          *)
(* households, and each with one numeric value replaced by a value that is *)
(* not a number or removed.                                                *)
PersonNumericFields ==
    {"base_salary_annual", "weeks_away", "uplift_pct", "extra_concessional_annual",
     "reportable_fringe_benefits_annual"}

InvestmentNumericFields ==
    {"gross_income_annual", "rent_per_week", "vacancy_weeks",
     "interest_deductible_annual", "other_deductible_annual", "ownership_a_pct"}

SingleOn100k ==
    [household |-> [is_couple |-> FALSE, dependant_children |-> NumI(0)],
     person_a |-> Person(100000, FALSE, 0, 0, FALSE, 0, 0),
     person_b |-> DefaultPerson,
     investments |-> <<>>]

CoupleWithProperty ==
    [household |-> [is_couple |-> TRUE, dependant_children |-> NumI(1)],
     person_a |-> Person(100000, FALSE, 26, 10, TRUE, 5000, 2000),
     person_b |-> Person(33600, TRUE, 0, 0, FALSE, 0, 0),
     investments |-> <<Property(500, 4, 40000, 2000, 50)>>]

NotNumbers == {Text, Missing}

Variants(base) ==
    {base}
    \cup {[base EXCEPT !.household.dependant_children = bad] : bad \in NotNumbers}
    \cup {[base EXCEPT !.household.is_couple = ~@, !.person_a[f] = bad] :
             f \in PersonNumericFields, bad \in NotNumbers}
    \cup {[base EXCEPT !.person_a[f] = bad] : f \in PersonNumericFields, bad \in NotNumbers}
    \cup {[base EXCEPT !.person_b[f] = bad] : f \in PersonNumericFields, bad \in NotNumbers}
    \cup {[base EXCEPT !.investments[i][f] = bad] :
             i \in 1..Len(base.investments), f \in InvestmentNumericFields,
             bad \in NotNumbers}

(* Single-person mode over records a couple left behind: a stored         *)
(* ownership other than 100 and a person B with values of their own or     *)
(* with values that are not numbers.                                       *)
SingleAfterCouple ==
    {[CoupleWithProperty EXCEPT !.household.is_couple = FALSE,
                                !.investments[1].ownership_a_pct = own,
                                !.person_b = b] :
        own \in {NumI(0), NumI(50), NumI(150), Missing},
        b \in {CoupleWithProperty.person_b,
               Person(280000, FALSE, 26, 10, TRUE, 10000, 20000),
               [CoupleWithProperty.person_b EXCEPT !.base_salary_annual = Text],
               [CoupleWithProperty.person_b EXCEPT !.weeks_away = Missing]}}

(* Stored amounts below the minimum of their widget. *)
BelowWidgetRange ==
    {[SingleOn100k EXCEPT !.person_a.extra_concessional_annual = NumI(e)] :
        e \in {-20000, -5000}}
    \cup {[CoupleWithProperty EXCEPT !.person_b.extra_concessional_annual = NumI(-1000)]}

PassArgs ==
    Variants(SingleOn100k) \cup Variants(CoupleWithProperty) \cup SingleAfterCouple
        \cup BelowWidgetRange

Call_tab_calc ==
    /\ call = NoCall
    /\ \E a \in PassArgs :
        /\ call' = [fn |-> "tab_calc", args |-> a,
                    res |-> tab_calc(a.household, a.person_a, a.person_b, a.investments)]
        /\ prev' = NoCall
        /\ UNCHANGED <<household, person_a, person_b, investments, scenarios,
                     active_scenario, out>>

InitFn ==
    /\ household = DefaultHousehold
    /\ person_a = DefaultPerson
    /\ person_b = DefaultPerson
    /\ investments = <<>>
    /\ scenarios = NoScenarios
    /\ active_scenario = None
    /\ out = NoOut
    /\ call = NoCall
    /\ prev = NoCall

NextFn ==
    \/ Call_calc_income_tax_resident_annual
    \/ Call_calc_medicare_levy_split
    \/ Call_calc_medicare_levy_amount_from_income
    \/ Call_render_person_block
    \/ Call_calc_uplift_annual
    \/ Call_calc_property_gross_income_annual
    \/ Call_calc_div293_tax
    \/ Call_household_investment_splits
    \/ Call_tab_calc

SpecFn == InitFn /\ [][NextFn]_vars

-----------------------------------------------------------------------------
(* Properties of the functions called on their own (SpecFn).               *)

IsCall(fn) == call.fn = fn

(* The bracket table of the resident rates: <<threshold, rate in %>>.      *)
Brackets == <<<<0, 0>>, <<18200, 16>>, <<45000, 30>>, <<135000, 37>>, <<190000, 45>>>>

(* Width of bracket k consumed by income x: all of it when x is past the   *)
(* next threshold, x - threshold when x lies in it, nothing below it.      *)
Consumed(k, x) ==
    LET lo == RI(Brackets[k][1])
        top == IF k = Len(Brackets) THEN x ELSE RMin(x, RI(Brackets[k + 1][1]))
    IN  RMax(RZero, RSub(top, lo))

RECURSIVE BracketWalkFrom(_, _)
BracketWalkFrom(k, x) ==
    IF k > Len(Brackets) THEN RZero
    ELSE RAdd(RMul(Consumed(k, x), Norm(Brackets[k][2], 100)), BracketWalkFrom(k + 1, x))

BracketWalk(x) == BracketWalkFrom(1, RMax(RZero, x))

(* C4: calc_income_tax_resident_annual is non-decreasing in taxable income *)
(* and has no jump: of two calls with incomes x <= y the second tax is at  *)
(* least the first and exceeds it by at most the top rate times y - x, and *)
(* one dollar past a threshold the tax has grown by exactly the rate of    *)
(* the bracket above, so the formulas of the bracket below and of the      *)
(* bracket above agree at the threshold.                                   *)
C4_TaxMonotoneNoJump ==
    (IsCall("calc_income_tax_resident_annual") /\ prev # NoCall) =>
        LET x == prev.args
            y == call.args
        IN  /\ RLe(x, y) =>
                /\ RLe(prev.res, call.res)
                /\ RLe(RSub(call.res, prev.res), RMul(Norm(45, 100), RSub(y, x)))
            /\ \A k \in 2..Len(Brackets) :
                (x = RI(Brackets[k][1]) /\ y = RI(Brackets[k][1] + 1)) =>
                    RSub(call.res, prev.res) = Norm(Brackets[k][2], 100)

C4_Witness ==
    /\ IsCall("calc_income_tax_resident_annual")
    /\ prev # NoCall
    /\ prev.args = RI(135000)
    /\ call.args = RI(135001)
    /\ RLt(prev.res, call.res)

(* C6: calc_div293_tax is 0.15 x min(cc, max(0, ti + rfb + cc - 250000))   *)
(* over the inputs floored at 0; it is never negative, never more than     *)
(* 0.15 x cc, and 4,500 for taxable income 260,000, no fringe benefits and *)
(* contributions 30,000.                                                   *)
C6_Div293Formula ==
    IsCall("calc_div293_tax") =>
        LET ti  == RMax(RZero, call.args.taxable_income)
            rfb == RMax(RZero, call.args.reportable_fringe_benefits)
            cc  == RMax(RZero, call.args.concessional_contributions)
            over == RMax(RZero, RSub(RAdd(RAdd(ti, rfb), cc), RI(250000)))
        IN  /\ call.res = RMul(Norm(15, 100), RMin(cc, over))
            /\ RLe(RZero, call.res)
            /\ RLe(call.res, RMul(Norm(15, 100), cc))
            /\ (call.args = [taxable_income |-> RI(260000),
                             reportable_fringe_benefits |-> RZero,
                             concessional_contributions |-> RI(30000)])
                   => call.res = RI(4500)

C6_Witness ==
    /\ IsCall("calc_div293_tax")
    /\ call.args = [taxable_income |-> RI(260000), reportable_fringe_benefits |-> RZero,
                    concessional_contributions |-> RI(30000)]
    /\ call.res = RI(4500)

(* The levy on a test-income and a taxable base against two thresholds:    *)
(* nothing up to the lower one, 10 cents per dollar above it in between,   *)
(* 2% of the taxable base from the upper one on.                           *)
LevyOn(test_income, taxable, lower, upper) ==
    IF RLe(test_income, lower) THEN RZero
    ELSE IF RLt(test_income, upper) THEN RMul(Norm(1, 10), RSub(test_income, lower))
    ELSE RMul(Norm(2, 100), taxable)

FamilyLower(children) == RI(45907 + 4216 * IMax(0, children))

FamilyUpper(children) == RI(57383 + 5270 * IMax(0, children))

Floor0(x) == RMax(RZero, x)

(* Of a call of calc_medicare_levy_split: the household's, or the single   *)
(* person's, levy, test-income, taxable income and thresholds, with the    *)
(* incomes and fringe benefits floored at 0.                               *)
CallLevy == RAdd(call.res[1], call.res[2])

CallTaxable ==
    IF call.args.is_couple
    THEN RAdd(Floor0(call.args.pa_taxable), Floor0(call.args.pb_taxable))
    ELSE Floor0(call.args.pa_taxable)

CallTestIncome ==
    IF call.args.is_couple
    THEN RAdd(RAdd(Floor0(call.args.pa_taxable), Floor0(call.args.pa_rfb)),
              RAdd(Floor0(call.args.pb_taxable), Floor0(call.args.pb_rfb)))
    ELSE RAdd(Floor0(call.args.pa_taxable), Floor0(call.args.pa_rfb))

CallLower == IF call.args.is_couple THEN FamilyLower(call.args.children) ELSE RI(27222)

CallUpper == IF call.args.is_couple THEN FamilyUpper(call.args.children) ELSE RI(34027)

(* The same with the incomes as they are passed, not floored.              *)
CallTaxableRaw ==
    IF call.args.is_couple THEN RAdd(call.args.pa_taxable, call.args.pb_taxable)
    ELSE call.args.pa_taxable

CallTestIncomeRaw ==
    IF call.args.is_couple
    THEN RAdd(RAdd(call.args.pa_taxable, call.args.pa_rfb),
              RAdd(call.args.pb_taxable, call.args.pb_rfb))
    ELSE RAdd(call.args.pa_taxable, call.args.pa_rfb)

(* levy[1] : levy[2] = a : b, for a, b >= 0 not both 0. *)
InRatio(levy, a, b) ==
    IF a = RZero THEN levy[1] = RZero
    ELSE IF b = RZero THEN levy[2] = RZero
    ELSE RDiv(levy[1], a) = RDiv(levy[2], b)

(* C2, as claimed: in couple mode the two levies are in the ratio of the   *)
(* two (floored) taxable incomes and add up to the household levy on the   *)
(* combined test-income against the family thresholds, for all incomes.    *)
C2_SplitAlwaysSumsToTotal ==
    (IsCall("calc_medicare_levy_split") /\ call.args.is_couple) =>
        /\ CallLevy = LevyOn(CallTestIncome, CallTaxable, CallLower, CallUpper)
        /\ RLt(RZero, CallTaxable) =>
               InRatio(call.res, Floor0(call.args.pa_taxable), Floor0(call.args.pb_taxable))

(* C2, amended: that holds when the combined floored taxable income is     *)
(* positive; when it is 0 both levies are 0, whatever the household levy.  *)
C2_SplitSumsToTotal ==
    (IsCall("calc_medicare_levy_split") /\ call.args.is_couple) =>
        IF RLt(RZero, CallTaxable)
        THEN /\ InRatio(call.res, Floor0(call.args.pa_taxable), Floor0(call.args.pb_taxable))
             /\ CallLevy = LevyOn(CallTestIncome, CallTaxable, CallLower, CallUpper)
        ELSE call.res = <<RZero, RZero>>

C2_Witness ==
    /\ IsCall("calc_medicare_levy_split")
    /\ call.args.is_couple
    /\ RLt(RZero, call.res[1])
    /\ RLt(call.res[1], call.res[2])
    /\ RLt(CallLower, CallTestIncome)
    /\ RLt(CallTestIncome, CallUpper)

(* C3, as claimed: the levy (of the single person, or of the household in  *)
(* couple mode) is 0 when taxable income + fringe benefits is at most the  *)
(* lower threshold and 0.02 x taxable income when it is at least the upper *)
(* threshold, for the incomes as they are.                                 *)
C3_LevyOutsidePhaseInRaw ==
    IsCall("calc_medicare_levy_split") =>
        /\ RLe(CallTestIncomeRaw, CallLower) => CallLevy = RZero
        /\ RLe(CallUpper, CallTestIncomeRaw) =>
               CallLevy = RMul(Norm(2, 100), CallTaxableRaw)

(* C3, amended: the same with every taxable income and fringe-benefit      *)
(* amount floored at 0 before it is added up.                              *)
C3_LevyOutsidePhaseIn ==
    IsCall("calc_medicare_levy_split") =>
        /\ RLe(CallTestIncome, CallLower) => CallLevy = RZero
        /\ RLe(CallUpper, CallTestIncome) =>
               CallLevy = RMul(Norm(2, 100), CallTaxable)

C3_Witness ==
    /\ IsCall("calc_medicare_levy_split")
    /\ call.args.is_couple
    /\ RLt(RZero, call.args.pa_rfb)
    /\ RLe(CallUpper, CallTestIncome)
    /\ RLt(CallTaxable, CallUpper)
    /\ RLt(RZero, CallLevy)

WithStoredGross(invs, i, g) == [invs EXCEPT ![i].gross_income_annual = NumI(g)]

(* C9: the aggregates of a call do not depend on the stored gross of a     *)
(* property: replacing it by any other value gives the same aggregates.    *)
(* The gross of a property alone in the list is rent x max(0, 52 -         *)
(* vacancy weeks); with rent 500, 4 vacant weeks and 50% ownership in      *)
(* couple mode it is 24,000, and each owner is allocated 12,000.           *)
C9_PropertyGrossDerived ==
    IsCall("_household_investment_splits") =>
        LET invs == call.args.investments
        IN  /\ \A i \in 1..Len(invs), g \in StoredGross :
                invs[i].type = PROPERTY_TYPE =>
                    _household_investment_splits(
                        WithStoredGross(invs, i, g), call.args.is_couple) = call.res
            /\ (Len(invs) = 1 /\ invs[1].type = PROPERTY_TYPE) =>
                   call.res.gross_total =
                       RMul(invs[1].rent_per_week.v,
                            RI(IMax(0, 52 - IntOf(invs[1].vacancy_weeks.v))))
            /\ (/\ Len(invs) = 1
                /\ invs[1].type = PROPERTY_TYPE
                /\ invs[1].rent_per_week = NumI(500)
                /\ invs[1].vacancy_weeks = NumI(4)
                /\ invs[1].ownership_a_pct = NumI(50)
                /\ call.args.is_couple) =>
                   /\ call.res.gross_total = RI(24000)
                   /\ call.res.a_gross = RI(12000)
                   /\ call.res.b_gross = RI(12000)

C9_Witness ==
    /\ IsCall("_household_investment_splits")
    /\ call.args.is_couple
    /\ Len(call.args.investments) = 1
    /\ call.args.investments[1].type = PROPERTY_TYPE
    /\ call.args.investments[1].gross_income_annual = NumI(99999)
    /\ call.args.investments[1].vacancy_weeks = NumI(4)
    /\ call.res.gross_total = RI(24000)
    /\ call.res.a_gross = RI(12000)

Zeroed(x) == IF IsNum(x) THEN x ELSE NumI(0)

ZeroedPerson(p) ==
    [f \in DOMAIN p |-> IF f \in PersonNumericFields THEN Zeroed(p[f]) ELSE p[f]]

ZeroedInvestment(inv) ==
    [f \in DOMAIN inv |-> IF f \in InvestmentNumericFields THEN Zeroed(inv[f]) ELSE inv[f]]

AllNumbers(a) ==
    /\ IsNum(a.household.dependant_children)
    /\ \A f \in PersonNumericFields : IsNum(a.person_a[f]) /\ IsNum(a.person_b[f])
    /\ \A i \in 1..Len(a.investments), f \in InvestmentNumericFields :
           IsNum(a.investments[i][f])

(* C7: whatever numeric input is not a number or is missing, the pass does *)
(* not raise, and its outputs are those of the pass with that input 0.     *)
C7_PassCoercesEveryInput ==
    IsCall("tab_calc") =>
        /\ ~call.res.raised
        /\ call.res =
               tab_calc([call.args.household EXCEPT !.dependant_children = Zeroed(@)],
                        ZeroedPerson(call.args.person_a),
                        ZeroedPerson(call.args.person_b),
                        [i \in 1..Len(call.args.investments) |->
                            ZeroedInvestment(call.args.investments[i])])

(* C8: calc_income_tax_resident_annual(x) is the bracket walk over the     *)
(* table for every x, x < 0 counting as 0, also as the pass applies it to  *)
(* person A's taxable income; the pass for a single person on a base       *)
(* salary of 100,000 (not including SG), without uplift or investments,    *)
(* gives total salary 100,000 and income tax 20,788.                       *)
C8_TaxIsBracketWalk ==
    /\ IsCall("calc_income_tax_resident_annual") => call.res = BracketWalk(call.args)
    /\ (IsCall("tab_calc") /\ ~call.res.raised) =>
           call.res.pa_income_tax = BracketWalk(call.res.pa_taxable_income)
    /\ (IsCall("tab_calc") /\ call.args = SingleOn100k) =>
           /\ ~call.res.raised
           /\ call.res.pa_total_salary = RI(100000)
           /\ call.res.pa_income_tax = RI(20788)

C8_Witness ==
    /\ IsCall("tab_calc")
    /\ call.args = SingleOn100k
    /\ call.res.pa_total_salary = RI(100000)
    /\ call.res.pa_income_tax = RI(20788)

(* After-levy income of a call: taxable income minus the levy. *)
AfterLevy(c) == RSub(c.args.taxable, c.res)

TestIncome(c) == RAdd(c.args.taxable, c.args.rfb)

LevyPair == IsCall("calc_medicare_levy_amount_from_income") /\ prev # NoCall

(* The step of the levy at the upper threshold: 2% of the upper threshold  *)
(* less the phase-in levy reached there.                                   *)
UpperStep(c) ==
    RMax(RZero, RSub(RMul(Norm(2, 100), c.args.upper),
                     RMul(Norm(1, 10), RSub(c.args.upper, c.args.lower))))

(* C11 as stated: for a fixed fringe-benefit amount and fixed thresholds,  *)
(* of two parties the one with the higher taxable income has at least the  *)
(* after-levy income of the other, over the whole range of incomes.        *)
C11_AfterLevyMonotoneEverywhere ==
    LevyPair =>
        (RLe(prev.args.taxable, call.args.taxable) => RLe(AfterLevy(prev), AfterLevy(call)))
        /\ (RLe(call.args.taxable, prev.args.taxable) => RLe(AfterLevy(call), AfterLevy(prev)))

SameSideOfUpper(c, d) ==
    RLt(TestIncome(c), c.args.upper) <=> RLt(TestIncome(d), d.args.upper)

(* C11 as amended: after-levy income is non-decreasing in taxable income   *)
(* among incomes whose test-income is below the upper threshold (so across *)
(* the lower threshold) and among incomes whose test-income is at or above *)
(* it; across the upper threshold the party with the higher income is      *)
(* behind by at most the step of the levy there.                           *)
C11_AfterLevyMonotone ==
    LevyPair =>
        LET lo == IF RLe(prev.args.taxable, call.args.taxable) THEN prev ELSE call
            hi == IF RLe(prev.args.taxable, call.args.taxable) THEN call ELSE prev
        IN  /\ SameSideOfUpper(lo, hi) => RLe(AfterLevy(lo), AfterLevy(hi))
            /\ RLe(RSub(AfterLevy(lo), UpperStep(lo)), AfterLevy(hi))

(* Two parties either side of the lower threshold of an individual. *)
C11_Witness ==
    /\ LevyPair
    /\ prev.args = [taxable |-> RI(27222), rfb |-> RZero,
                    lower |-> RI(IND_LOWER), upper |-> RI(IND_UPPER)]
    /\ call.args.taxable = RI(27223)
    /\ prev.res = RZero
    /\ call.res = Norm(1, 10)

(* Total salary as the specification defines it: the ordinary-time-        *)
(* equivalent base (base salary, or base salary / 1.12 when the salary      *)
(* includes SG) plus base salary x max(0, uplift%)/100 x clamp(weeks)/52.  *)
SpecTotalSalary(p) ==
    LET base == p.base_salary_annual.v
        ote  == IF p.salary_includes_sg THEN RDiv(base, Norm(112, 100)) ELSE base
        w    == IMin(IMax(IntOf(p.weeks_away.v), 0), 52)
    IN  RAdd(ote, RMul(RMul(base, RDiv(RMax(RZero, p.uplift_pct.v), RI(100))),
                       Norm(w, 52)))

(* C12: the total salary the person block shows and the total salary the   *)
(* tax pipeline uses (person B's in couple mode) both equal OTE base plus  *)
(* uplift.                                                                 *)
C12_TotalSalaryIsOtePlusUplift ==
    /\ IsCall("render_person_block") => call.res.total_salary = SpecTotalSalary(call.args)
    /\ (IsCall("tab_calc") /\ ~call.res.raised) =>
           /\ call.res.pa_total_salary = SpecTotalSalary(call.args.person_a)
           /\ call.args.household.is_couple =>
                  call.res.pb_total_salary = SpecTotalSalary(call.args.person_b)

Clamp(x, lo, hi) == RMin(RMax(x, lo), hi)

(* The whole weeks of a number of weeks, as int() takes them. *)
WholeWeeks(w) == RI(IntOf(w))

(* C13: every out-of-range input is clamped into its range before use:     *)
(* the uplift is computed with the weeks away as a value in [0, 52] and    *)
(* the percentage as a value >= 0, the gross of a property with the weeks  *)
(* let, 52 - vacancy weeks, as a value in [0, 52], and the allocation of   *)
(* an investment of a couple with A's share as a value in [0, 1].          *)
C13_InputsClampedIntoRange ==
    /\ IsCall("calc_uplift_annual") =>
           call.res = RMul(RMul(call.args.base_salary_annual,
                                RDiv(RMax(RZero, call.args.uplift_pct), RI(100))),
                           RDiv(Clamp(WholeWeeks(call.args.weeks_away), RZero, RI(52)),
                                RI(52)))
    /\ IsCall("calc_property_gross_income_annual") =>
           call.res = RMul(call.args.rent_per_week,
                           Clamp(RSub(RI(52), WholeWeeks(call.args.vacancy_weeks)),
                                 RZero, RI(52)))
    /\ (/\ IsCall("_household_investment_splits")
        /\ call.args.is_couple
        /\ Len(call.args.investments) = 1
        /\ IsNum(call.args.investments[1].ownership_a_pct)) =>
           call.res.a_gross =
               RMul(call.res.gross_total,
                    Clamp(RDiv(call.args.investments[1].ownership_a_pct.v, RI(100)),
                          RZero, RI(1)))

SinglePass == IsCall("tab_calc") /\ ~call.args.household.is_couple

(* C14: in single-person mode, whatever ownership is stored and whatever   *)
(* person B's record holds, the pass does not read person B, allocates the *)
(* whole gross and net-taxable amount of the investments to A, gives 0 for *)
(* every output of person B, and the household totals are A's figures.     *)
C14_SingleModeAllToA ==
    SinglePass =>
        LET a == call.args
            o == call.res
        IN  /\ o.raised => tab_calc_raises(a.household, a.person_a, DefaultPerson,
                                           a.investments)
            /\ ~o.raised =>
                   /\ o.splits.a_gross = o.splits.gross_total
                   /\ o.splits.a_net_taxable = o.splits.net_taxable_total
                   /\ o.splits.b_gross = RZero
                   /\ o.splits.b_net_taxable = RZero
                   /\ \A f \in {"pb_total_salary", "pb_taxable_income", "pb_sg",
                                 "pb_concessional_total", "pb_income_tax", "pb_medicare",
                                 "pb_div293", "pb_ng_benefit", "pb_after_tax_income"} :
                          o[f] = RZero
                   /\ o.household_total_salary = o.pa_total_salary
                   /\ o.household_super_total = RAdd(o.pa_sg, o.pa_extra_cc)
                   /\ o.household_ng_benefit = o.pa_ng_benefit
                   /\ o.household_pay = RAdd(o.pa_after_tax_income, o.splits.gross_total)

C14_Witness ==
    /\ SinglePass
    /\ ~call.res.raised
    /\ call.args.investments # <<>>
    /\ call.args.investments[1].ownership_a_pct = NumI(0)
    /\ call.args.person_b.base_salary_annual = NumI(280000)
    /\ RLt(RZero, call.res.splits.a_gross)
    /\ call.res.splits.a_gross = call.res.splits.gross_total

(* Guarantee contribution and total concessional contributions of the     *)
(* person p as the specification defines them, from the OTE base and the   *)
(* uplift of the pass.                                                     *)
SpecGuarantee(p, base_ote, uplift) ==
    RMul(RMax(RZero, RAdd(base_ote, IF p.uplift_sg_applies THEN uplift ELSE RZero)),
         Norm(12, 100))

SpecConcessional(p, base_ote, uplift) ==
    RAdd(SpecGuarantee(p, base_ote, uplift),
         RMax(RZero, _safe_float(Get(p.extra_concessional_annual, NumI(0)))))

(* C15: of each person the guarantee contribution is max(0, OTE base +     *)
(* uplift if SG applies to it) x 0.12 and the total concessional           *)
(* contributions are the guarantee contribution plus the extra             *)
(* contribution floored at 0; the total is never negative and the          *)
(* household super total is the sum of the persons' totals.                *)
C15_ConcessionalIsGuaranteePlusExtra ==
    (IsCall("tab_calc") /\ ~call.res.raised) =>
        LET a == call.args
            o == call.res
        IN  /\ o.pa_sg = SpecGuarantee(a.person_a, o.pa_base_ote, o.pa_uplift)
            /\ o.pa_concessional_total =
                   SpecConcessional(a.person_a, o.pa_base_ote, o.pa_uplift)
            /\ a.household.is_couple =>
                   /\ o.pb_sg = SpecGuarantee(a.person_b, o.pb_base_ote, o.pb_uplift)
                   /\ o.pb_concessional_total =
                          SpecConcessional(a.person_b, o.pb_base_ote, o.pb_uplift)
            /\ RLe(RZero, o.pa_concessional_total)
            /\ RLe(RZero, o.pb_concessional_total)
            /\ o.household_super_total =
                   RAdd(o.pa_concessional_total, o.pb_concessional_total)

(* C16: a couple's household levy is computed on the combined test-income  *)
(* (both taxable incomes and both fringe benefits, each floored at 0)      *)
(* against lower = 45,907 + 4,216 x children and upper = 57,383 + 5,270 x  *)
(* children, children floored at 0, and is 0.10 x (combined test-income -  *)
(* lower) strictly between them; a single person's levy uses 27,222 and    *)
(* 34,027 whatever the child count.                                        *)
C16_HouseholdLevyOnFamilyThresholds ==
    IsCall("calc_medicare_levy_split") =>
        IF call.args.is_couple
        THEN /\ call.total_levy =
                    LevyOn(CallTestIncome, CallTaxable, FamilyLower(call.args.children),
                           FamilyUpper(call.args.children))
             /\ (/\ RLt(FamilyLower(call.args.children), CallTestIncome)
                 /\ RLt(CallTestIncome, FamilyUpper(call.args.children))) =>
                    call.total_levy =
                        RMul(Norm(1, 10),
                             RSub(CallTestIncome, FamilyLower(call.args.children)))
        ELSE call.res = <<LevyOn(CallTestIncome, CallTaxable, RI(27222), RI(34027)), RZero>>

(* A couple with one child between the family thresholds 50,123 and        *)
(* 62,653, and a single person with one child above 34,027.                *)
C16_Witness ==
    /\ IsCall("calc_medicare_levy_split")
    /\ call.args.children = 1
    /\ \/ /\ call.args.is_couple
          /\ CallTestIncome = RI(62000)
          /\ call.total_levy = Norm(11877, 10)
       \/ /\ ~call.args.is_couple
          /\ CallTestIncome = RI(50123)
          /\ call.res[1] = RMul(Norm(2, 100), CallTaxable)

(* The levy the claim speaks of: the household total levy of a couple's    *)
(* call, the individual levy of a single person's.                         *)
RegimeLevy == IF call.args.is_couple THEN call.total_levy ELSE call.res[1]

TwoPercentOf(x) == RMul(Norm(2, 100), x)

(* C21 as stated: for every taxable income, fringe-benefit amount and      *)
(* child count, in both regimes, the levy is never negative and never      *)
(* exceeds 2% of the test-income, taxable income + fringe benefits as they *)
(* are passed.                                                             *)
C21_LevyWithinTwoPercentOfPassedIncome ==
    IsCall("calc_medicare_levy_split") =>
        /\ RLe(RZero, RegimeLevy)
        /\ RLe(RegimeLevy, TwoPercentOf(CallTestIncomeRaw))

(* C21, amended: with taxable income and fringe benefits each floored at 0 *)
(* before use, for every child count and in both regimes, the levy is      *)
(* never negative and never exceeds 2% of the test-income (floored taxable *)
(* income + floored fringe benefits); so also for the levy function on its *)
(* own, against the individual and the family thresholds.                  *)
C21_LevyWithinTwoPercent ==
    /\ IsCall("calc_medicare_levy_split") =>
           /\ RLe(RZero, RegimeLevy)
           /\ RLe(RegimeLevy, TwoPercentOf(CallTestIncome))
    /\ IsCall("calc_medicare_levy_amount_from_income") =>
           /\ RLe(RZero, call.res)
           /\ RLe(call.res, TwoPercentOf(TestIncome(call)))

(* A couple with one child, 270 below the upper threshold 62,653, one      *)
(* taxable income negative: the levy 1,226 is 10% of the excess over       *)
(* 50,123, within 21.66 of 2% of the test-income 62,383.                   *)
C21_Witness ==
    /\ IsCall("calc_medicare_levy_split")
    /\ call.args.is_couple
    /\ call.args.children = 1
    /\ call.args.pb_taxable = RI(-5000)
    /\ CallTestIncome = RI(62383)
    /\ RegimeLevy = RI(1226)
    /\ RSub(TwoPercentOf(CallTestIncome), RegimeLevy) = Norm(2166, 100)

-----------------------------------------------------------------------------
(* Properties of the calculation pass (SpecPass).                          *)

NonNegative(x) == RLe(RZero, x)

(* C1: after a pass, each person's negative-gearing benefit is >= 0, and   *)
(* it is 0 whenever that person's own net-taxable allocation is >= 0,      *)
(* whatever the other person's allocation is.                              *)
C1_NoBenefitWithoutOwnLoss ==
    (Ran /\ ~out.raised) =>
        /\ NonNegative(out.pa_ng_benefit)
        /\ NonNegative(out.pb_ng_benefit)
        /\ NonNegative(out.splits.a_net_taxable) => out.pa_ng_benefit = RZero
        /\ NonNegative(out.splits.b_net_taxable) => out.pb_ng_benefit = RZero

TaxesAddUp(o) ==
    /\ o.pa_total_tax = RAdd(RAdd(o.pa_income_tax, o.pa_medicare), o.pa_div293)
    /\ o.pb_total_tax = RAdd(RAdd(o.pb_income_tax, o.pb_medicare), o.pb_div293)
    /\ o.pa_super_tax = RMul(Norm(15, 100), o.pa_concessional_total)
    /\ o.pb_super_tax = RMul(Norm(15, 100), o.pb_concessional_total)

NoDiv293(o) == o.pa_div293 = RZero /\ o.pb_div293 = RZero

(* C10: after every pass each person's total tax is income tax + Medicare  *)
(* levy + Division 293 tax and the contributions tax is 0.15 x the total   *)
(* concessional contributions; and a change of a person's extra            *)
(* concessional contributions with Division 293 tax 0 before and after     *)
(* leaves both persons' total tax and after-tax income and the household   *)
(* pay as they were.                                                       *)
C10_FundTaxOutsideTotalTax ==
    [][/\ (Ran' /\ ~out'.raised) => TaxesAddUp(out')
       /\ (Ran /\ Ran' /\ ~out.raised /\ ~out'.raised /\ NoDiv293(out) /\ NoDiv293(out')) =>
              /\ out'.pa_total_tax = out.pa_total_tax
              /\ out'.pb_total_tax = out.pb_total_tax
              /\ out'.pa_after_tax_income = out.pa_after_tax_income
              /\ out'.pb_after_tax_income = out.pb_after_tax_income
              /\ out'.household_pay = out.household_pay]_vars

C10_Witness ==
    /\ Ran
    /\ ~out.raised
    /\ household.is_couple
    /\ person_a.extra_concessional_annual = NumI(10000)
    /\ person_b.extra_concessional_annual = NumI(0)
    /\ RLt(out.pb_super_tax, out.pa_super_tax)
    /\ NoDiv293(out)
    /\ RLt(RZero, out.pa_total_tax)

(* C17: each person's after-tax income is max(0, total salary - total tax) *)
(* and so lies between 0 and the total salary; household pay is the two    *)
(* after-tax incomes plus the gross investment income of the household,    *)
(* deductions not subtracted; monthly pay is household pay / 12.           *)
C17_AfterTaxAndPay ==
    (Ran /\ ~out.raised) =>
        /\ out.pa_after_tax_income =
               RMax(RZero, RSub(out.pa_total_salary, out.pa_total_tax))
        /\ out.pb_after_tax_income =
               RMax(RZero, RSub(out.pb_total_salary, out.pb_total_tax))
        /\ RLe(RZero, out.pa_after_tax_income)
        /\ RLe(out.pa_after_tax_income, out.pa_total_salary)
        /\ RLe(RZero, out.pb_after_tax_income)
        /\ RLe(out.pb_after_tax_income, out.pb_total_salary)
        /\ out.household_pay =
               RAdd(RAdd(out.pa_after_tax_income, out.pb_after_tax_income),
                    out.splits.gross_total)
        /\ RMul(out.pay_monthly, RI(12)) = out.household_pay

(* A person without salary whose tax on 60,000 of investment income is     *)
(* floored away, the 60,000 counting in full towards household pay.        *)
C17_Witness ==
    /\ Ran
    /\ ~out.raised
    /\ out.pa_total_salary = RZero
    /\ RLt(RZero, out.pa_total_tax)
    /\ out.pa_after_tax_income = RZero
    /\ out.household_pay = RAdd(out.pb_after_tax_income, RI(60000))

-----------------------------------------------------------------------------
(* Claims about the application.                                           *)

Blank(name) == \A i \in 1..Len(name) : name[i] = " "

ActiveIsStored(active, stored) == active = None \/ active \in DOMAIN stored

(* C19: after any sequence of add, load, delete and save-over-active,      *)
(* active_scenario is None or the name of a stored scenario; adding with   *)
(* an empty or whitespace-only name changes neither scenarios nor          *)
(* active_scenario; deleting a scenario that is not the active one leaves  *)
(* active_scenario and every other stored scenario unchanged.              *)
C19_ActiveScenarioIsStored ==
    /\ ActiveIsStored(active_scenario, scenarios)
    /\ [][/\ ActiveIsStored(active_scenario', scenarios')
          /\ (call'.fn = "add_scenario" /\ Blank(call'.name)) =>
                 UNCHANGED <<scenarios, active_scenario>>
          /\ (call'.fn = "delete_scenario" /\ call'.name # active_scenario) =>
                 /\ active_scenario' = active_scenario
                 /\ DOMAIN scenarios' = DOMAIN scenarios \ {call'.name}
                 /\ \A other \in DOMAIN scenarios' :
                        scenarios'[other] = scenarios[other]]_vars

(* A scenario that was not the active one has just been deleted; the       *)
(* active one is still stored.                                             *)
C19_Witness ==
    /\ call.fn = "delete_scenario"
    /\ call.name \notin DOMAIN scenarios
    /\ active_scenario # None
    /\ active_scenario \in DOMAIN scenarios

Inputs(hh, pa, pb, invs) ==
    [household |-> hh, person_a |-> pa, person_b |-> pb, investments |-> invs]

SavesOver(fn, name) ==
    (fn = "add_scenario" /\ ~Blank(name)) \/ fn = "save_over_active"

(* C20: saving the current inputs as scenario N stores exactly them and    *)
(* leaves them as they are; whatever edits, additions and removals of      *)
(* investments and loads follow, the stored snapshot of N changes only     *)
(* when N is saved over and goes only when N is deleted; and loading N     *)
(* sets household, person_a, person_b and investments to exactly the       *)
(* stored snapshot, so to the values they had when N was saved.            *)
C20_LoadRestoresSavedInputs ==
    [][/\ SavesOver(call'.fn, call'.name) =>
             /\ active_scenario' \in DOMAIN scenarios'
             /\ scenarios'[active_scenario'] =
                    Inputs(household, person_a, person_b, investments)
             /\ UNCHANGED <<household, person_a, person_b, investments>>
       /\ \A N \in DOMAIN scenarios :
             \/ /\ N \in DOMAIN scenarios'
                /\ scenarios'[N] = scenarios[N]
             \/ /\ N \in DOMAIN scenarios'
                /\ SavesOver(call'.fn, call'.name)
                /\ active_scenario' = N
             \/ /\ N \notin DOMAIN scenarios'
                /\ call'.fn = "delete_scenario"
                /\ call'.name = N
       /\ call'.fn = "load_scenario" =>
             Inputs(household', person_a', person_b', investments') =
                 scenarios[call'.name]]_vars

(* Scenario N, saved in couple mode with a jointly owned investment, has   *)
(* just been loaded, while another stored scenario holds single-mode       *)
(* inputs with a different person A.                                       *)
C20_Witness ==
    /\ call.fn = "load_scenario"
    /\ Inputs(household, person_a, person_b, investments) = scenarios[call.name]
    /\ household.is_couple
    /\ investments # <<>>
    /\ investments[1].ownership_a_pct = NumI(50)
    /\ \E other \in DOMAIN scenarios :
          /\ other # call.name
          /\ ~scenarios[other].household.is_couple
          /\ scenarios[other].person_a # person_a

====
